---- MODULE Spec2Model ----
(***************************************************************************)
(* Shift lifecycle and timesheet billing engine of the OLO backend.        *)
(*                                                                         *)
(* The stored collections (ShiftRequest, Shift, Timesheet) are sequences   *)
(* of records; a document's _id is its index.  Every service call runs in  *)
(* a worker, one step per storage round trip (every `await` on a model     *)
(* query or save), so that calls interleave the way concurrent HTTP        *)
(* requests do.  A call's in-memory documents live in calls[w]; a call     *)
(* that has returned shows its status in calls[w].res until the response   *)
(* is sent, which happens before any other handler runs.                   *)
(*                                                                         *)
(* Times are milliseconds counted from a Monday 00:00:00.000 UTC.          *)
(* `hours` values are exact rationals held as a count of sixtieths of an   *)
(* hour (minutes / 60 hours is the integer `minutes`).                     *)
(* Document.save() writes the paths the handler assigned; fields that no   *)
(* schema declares are kept on the in-memory document only.                *)
(***************************************************************************)
EXTENDS Integers, Sequences, FiniteSets, TLC

\* ------------------------------------------------------------------ bounds
MaxRequests == 1
MaxShifts == 2
MaxTicks == 1

\* --------------------------------------------------------- program constants
MIN_MINUTES == 30
HourlyRateCents == 6500
KmRateCents == 85
MsPerMinute == 60000
DayMs == 24 * 60 * MsPerMinute
WeekMs == 7 * DayMs

\* ------------------------------------------------------------- environment
\* The clock advances in steps of 10 min 10 s, starting on a Sunday evening
\* three steps before Monday 00:00 UTC of the following week.
TickMs == 610 * 1000
StartNow == WeekMs - 3 * TickMs
\* The instant whose getTime() is 0: Thursday 1970-01-01 00:00:00.000 UTC, when
\* times are counted from the Monday before it.
EpochMs == 3 * DayMs

\* Request handlers in flight at once.  Handlers are interchangeable: a new call
\* is taken by the lowest free one.
Workers == {1, 2}

\* Absent values: a missing reference (ids are strings or indexes from 1), a
\* missing number or date.
Null == "null"
NoId == 0
NoNum == 0 - 1

\* User documents (role, status) and the profile documents that refer to them.
Users == {"p1", "admin", "u1", "u2", "u3", "u4"}
UserRole(u) ==
  CASE u \in {"p1", "u4"} -> "PARTICIPANT"
    [] u = "admin" -> "ADMIN"
    [] OTHER -> "TRAINER"
UserStatus(u) == IF u = "u3" THEN "BLOCKED" ELSE "ACTIVE"
\* Trainer profiles: _id, userId, status.  t2 has the status a new profile
\* gets, t3's user is blocked, t4's user is no trainer.
Trainers == {"t1", "t2", "t3", "t4"}
TrainerUserId(t) ==
  CASE t = "t1" -> "u1" [] t = "t2" -> "u2" [] t = "t3" -> "u3" [] OTHER -> "u4"
TrainerStatus(t) == IF t = "t2" THEN "pending" ELSE "approved"
\* Participant profiles by userId.
ParticipantProfiles == {"p1"}

\* Trainer.findOne({ userId }): the profile's _id, or Null.
TrainerByUserId(u) ==
  IF \E t \in Trainers : TrainerUserId(t) = u
  THEN CHOOSE t \in Trainers : TrainerUserId(t) = u
  ELSE Null

\* Request windows offered to createShiftRequest: <<start, end>>.
Windows ==
  { <<StartNow - 6 * TickMs, StartNow>>,                \* 61 min, ends in week 0
    <<StartNow, StartNow + 3 * TickMs>>,                \* 30.5 min, ends Monday 00:00
    <<StartNow + TickMs, StartNow + 3 * TickMs>>,       \* 20 min 20 s: too short
    <<StartNow + 2 * TickMs, StartNow + 2 * TickMs>>,   \* start = end
    <<StartNow - 9 * TickMs, StartNow - 3 * TickMs>> }  \* ends in the past

\* report.km as sent by the trainer (NoNum: absent).
KmInputs == {NoNum, 12}

\* ------------------------------------------------------------ pure helpers
\* Math.round(n / d) for d > 0: halves round up.
RoundDiv(n, d) == (2 * n + d) \div (2 * d)

Max(a, b) == IF a >= b THEN a ELSE b

minutesBetween(a, b) == Max(0, RoundDiv(b - a, MsPerMinute))

startOfWeekUTC(d) ==
  LET x == d - (d % DayMs)                  \* Date.UTC(y, m, d)
      dow == ((x \div DayMs) + 1) % 7       \* getUTCDay(): day 0 is a Monday
      diffToMon == (dow + 6) % 7
  IN x - diffToMon * DayMs

endOfWeekUTC(ws) == (ws - (ws % DayMs)) + 6 * DayMs + (DayMs - 1)

\* A variant that pays no mileage.
getPricingSnapshotForShift_noKm(shift) ==
  [hourlyRateCents |-> HourlyRateCents, kmRateCents |-> 0]

getPricingSnapshotForShift(shift) ==
  [hourlyRateCents |-> HourlyRateCents, kmRateCents |-> KmRateCents]

\* A variant that rejects a window ending at this instant and one of exactly
\* the minimum length.
validateRequestWindow_strict(start, end, at) ==
  IF start >= end THEN 400
  ELSE IF end <= at THEN 400
  ELSE IF (end - start) <= MIN_MINUTES * MsPerMinute THEN 400
  ELSE 0

\* validateRequestWindow: 0 when the window is accepted, else the error status.
validateRequestWindow(start, end, at) ==
  IF start >= end THEN 400
  ELSE IF end < at THEN 400
  ELSE IF (end - start) < MIN_MINUTES * MsPerMinute THEN 400
  ELSE 0

\* ensureParticipantOwnership: 0 when allowed, else the error status.
ensureParticipantOwnership(participantId, userId, role) ==
  IF participantId \notin Users THEN 404
  ELSE IF role # "ADMIN" /\ participantId # userId THEN 403
  ELSE 0

\* The eligibility test of approveAndAssign on the populated trainer.
TrainerNotEligible(t) ==
  \/ UserRole(TrainerUserId(t)) # "TRAINER"
  \/ UserStatus(TrainerUserId(t)) = "BLOCKED"
  \/ TrainerStatus(t) = "PENDING"

\* ------------------------------------------------------------------- state
VARIABLES now, requests, shifts, timesheets, calls

vars == <<now, requests, shifts, timesheets, calls>>

\* A worker between calls, and the fields every call record carries.
NoDoc == <<>>
IdleCall ==
  [op |-> "none", pc |-> "idle", res |-> 0, reqId |-> NoId, trainerId |-> Null,
   at |-> NoNum, shiftId |-> NoId, km |-> NoNum, mail |-> "none",
   shift |-> NoDoc, tsId |-> NoId, args |-> NoDoc, ts |-> NoDoc]

\* No response is waiting to be sent.
Quiet == \A v \in Workers : calls[v].pc # "done"

\* Worker w may take a new call.
Free(w) ==
  /\ Quiet
  /\ calls[w].pc = "idle"
  /\ \A v \in Workers : v < w => calls[v].pc # "idle"

\* Worker w is at step pc of its call.
At(w, pc) == Quiet /\ calls[w].pc = pc

\* A call ends with the given status; `more` are the locals it ends with.
Return(w, op, status, more) ==
  calls' = [calls EXCEPT ![w] =
              [f \in DOMAIN IdleCall |->
                 IF f = "op" THEN op
                 ELSE IF f = "pc" THEN "done"
                 ELSE IF f = "res" THEN status
                 ELSE IF f \in DOMAIN more THEN more[f]
                 ELSE calls[w][f]]]

\* A call moves on to its next storage round trip.
Goto(w, op, pc, more) ==
  calls' = [calls EXCEPT ![w] =
              [f \in DOMAIN IdleCall |->
                 IF f = "op" THEN op
                 ELSE IF f = "pc" THEN pc
                 ELSE IF f \in DOMAIN more THEN more[f]
                 ELSE calls[w][f]]]

NoMore == [x \in {} |-> 0]

Init ==
  /\ now = StartNow
  /\ requests = <<>>
  /\ shifts = <<>>
  /\ timesheets = <<>>
  /\ calls = [w \in Workers |-> IdleCall]

\* The wall clock advances.
Tick ==
  /\ Quiet
  /\ now < StartNow + MaxTicks * TickMs
  /\ now' = now + TickMs
  /\ UNCHANGED <<requests, shifts, timesheets, calls>>

\* The response of a finished call is sent and its worker is free again.
Respond(w) ==
  /\ calls[w].pc = "done"
  /\ calls' = [calls EXCEPT ![w] = IdleCall]
  /\ UNCHANGED <<now, requests, shifts, timesheets>>

\* ------------------------------------------------- shift request lifecycle
ParticipantInputs == {"p1", "p0"}
RequesterInputs == {"p1", "admin", "u1"}
TrainerInputs == Trainers \cup {"t0"}
RequestInputs == 1..(MaxRequests + 1)

createShiftRequest(w, participantId, requestedBy, win) ==
  LET start == win[1]
      end == win[2]
      invalid == validateRequestWindow(start, end, now)
      denied == ensureParticipantOwnership(participantId, requestedBy,
                                           UserRole(requestedBy))
      doc == [participantId |-> participantId, start |-> start, end |-> end,
              status |-> "PENDING_ADMIN", assignedTrainerId |-> Null,
              linkedShiftId |-> NoId]
  IN /\ Free(w)
     /\ IF invalid # 0
        THEN Return(w, "createShiftRequest", invalid, NoMore) /\ UNCHANGED requests
        ELSE IF denied # 0
        THEN Return(w, "createShiftRequest", denied, NoMore) /\ UNCHANGED requests
        ELSE /\ Len(requests) < MaxRequests
             /\ requests' = Append(requests, doc)
             /\ Return(w, "createShiftRequest", 200, [reqId |-> Len(requests) + 1])
     /\ UNCHANGED <<now, shifts, timesheets>>

\* A variant that also lets an APPROVED request through.
isPendingAdmin_orApproved(status) == status \in {"PENDING_ADMIN", "APPROVED"}

\* The status a request must have to be approved or declined.
isPendingAdmin(status) == status = "PENDING_ADMIN"

\* approveAndAssign up to its save: loads the request, the trainer with its
\* user, and the participant profile.
approveAndAssign_load(w, requestId, trainerId) ==
  /\ Free(w)
  /\ IF requestId > Len(requests)
     THEN Return(w, "approveAndAssign", 404, NoMore)
     ELSE IF ~isPendingAdmin(requests[requestId].status)
     THEN Return(w, "approveAndAssign", 409,
                 [reqId |-> requestId, trainerId |-> trainerId])
     ELSE IF trainerId \notin Trainers
     THEN Return(w, "approveAndAssign", 404, [reqId |-> requestId])
     ELSE IF TrainerNotEligible(trainerId)
     THEN Return(w, "approveAndAssign", 400,
                 [reqId |-> requestId, trainerId |-> trainerId])
     ELSE IF requests[requestId].participantId \notin ParticipantProfiles
     THEN Return(w, "approveAndAssign", 404, [reqId |-> requestId])
     ELSE Goto(w, "approveAndAssign", "aa_save",
               [reqId |-> requestId, trainerId |-> trainerId])
  /\ UNCHANGED <<now, requests, shifts, timesheets>>

\* reqDoc.save() of approveAndAssign.
approveAndAssign_save(w) ==
  /\ At(w, "aa_save")
  /\ requests' = [requests EXCEPT
                    ![calls[w].reqId].status = "APPROVED",
                    ![calls[w].reqId].assignedTrainerId = calls[w].trainerId]
  /\ Goto(w, "approveAndAssign", "aa_notify", NoMore)
  /\ UNCHANGED <<now, shifts, timesheets>>

\* A variant in which a failed email takes the approval back.
approveAndAssign_notify_rollback(w) ==
  /\ At(w, "aa_notify")
  /\ \E outcome \in {"sent", "failed"} :
       /\ Return(w, "approveAndAssign", 200, [mail |-> outcome])
       /\ requests' = IF outcome = "sent" THEN requests
                      ELSE [requests EXCEPT
                              ![calls[w].reqId].status = "PENDING_ADMIN",
                              ![calls[w].reqId].assignedTrainerId = Null]
  /\ UNCHANGED <<now, shifts, timesheets>>

\* The two notification emails, inside try/catch: sent or failed, the call
\* returns the request either way.
approveAndAssign_notify(w) ==
  /\ At(w, "aa_notify")
  /\ \E outcome \in {"sent", "failed"} :
       Return(w, "approveAndAssign", 200, [mail |-> outcome])
  /\ UNCHANGED <<now, requests, shifts, timesheets>>

\* A variant that declines whatever the status is.
decline_load_any(w, requestId) ==
  /\ Free(w)
  /\ IF requestId > Len(requests)
     THEN Return(w, "decline", 404, NoMore)
     ELSE Goto(w, "decline", "d_save", [reqId |-> requestId])
  /\ UNCHANGED <<now, requests, shifts, timesheets>>

decline_load(w, requestId) ==
  /\ Free(w)
  /\ IF requestId > Len(requests)
     THEN Return(w, "decline", 404, NoMore)
     ELSE IF ~isPendingAdmin(requests[requestId].status)
     THEN Return(w, "decline", 409, [reqId |-> requestId])
     ELSE Goto(w, "decline", "d_save", [reqId |-> requestId])
  /\ UNCHANGED <<now, requests, shifts, timesheets>>

decline_save(w) ==
  /\ At(w, "d_save")
  /\ requests' = [requests EXCEPT ![calls[w].reqId].status = "DECLINED"]
  /\ Return(w, "decline", 200, NoMore)
  /\ UNCHANGED <<now, shifts, timesheets>>

\* ------------------------------------------------------ clock-in / clock-out
CallerInputs == {"u1", "u2", "p1"}

\* A variant that looks for the wrong status.
existingActive_completed(shs, requestId) ==
  \E i \in 1..Len(shs) :
    shs[i].shiftRequestId = requestId /\ shs[i].status = "COMPLETED"

\* Shift.findOne({ shiftRequestId, status: "IN_PROGRESS" }) finds a document.
existingActive(shs, requestId) ==
  \E i \in 1..Len(shs) :
    shs[i].shiftRequestId = requestId /\ shs[i].status = "IN_PROGRESS"

\* Clock-in calls that have passed their checks and not yet inserted.
PendingInserts == Cardinality({v \in Workers : calls[v].pc = "ci_insert"})

\* A variant that lets a request without a trainer through.
notAssignedTo_set(reqDoc, trainer) ==
  reqDoc.assignedTrainerId # Null /\ reqDoc.assignedTrainerId # trainer

\* The ownership test of clock-in and clock-out: the request has no assigned
\* trainer or another one.
notAssignedTo(reqDoc, trainer) ==
  reqDoc.assignedTrainerId = Null \/ reqDoc.assignedTrainerId # trainer

\* clockInShiftAsTrainer: the trainer profile and the request are loaded and
\* ownership and status are checked.
clockInShiftAsTrainer_load(w, trainerUserId, shiftRequestId) ==
  LET trainer == TrainerByUserId(trainerUserId) IN
  /\ Free(w)
  /\ IF trainer = Null
     THEN Return(w, "clockIn", 404, NoMore)
     ELSE IF shiftRequestId > Len(requests)
     THEN Return(w, "clockIn", 404, NoMore)
     ELSE IF notAssignedTo(requests[shiftRequestId], trainer)
     THEN Return(w, "clockIn", 403, [reqId |-> shiftRequestId, trainerId |-> trainer])
     ELSE IF requests[shiftRequestId].status # "APPROVED"
     THEN Return(w, "clockIn", 409, [reqId |-> shiftRequestId, trainerId |-> trainer])
     ELSE Goto(w, "clockIn", "ci_find",
               [reqId |-> shiftRequestId, trainerId |-> trainer])
  /\ UNCHANGED <<now, requests, shifts, timesheets>>

\* The duplicate check resolves; the new Shift is built from the request as
\* loaded and the wall clock.
clockInShiftAsTrainer_find(w) ==
  LET r == calls[w].reqId
      scheduledStart == requests[r].start
      scheduledEnd == requests[r].end
      scheduledDurationMs == scheduledEnd - scheduledStart
      doc == [shiftRequestId |-> r,
              participantId |-> requests[r].participantId,
              trainerId |-> calls[w].trainerId,
              scheduledStart |-> scheduledStart,
              scheduledEnd |-> scheduledEnd,
              scheduledDurationMinutes |-> RoundDiv(scheduledDurationMs, MsPerMinute),
              actualClockIn |-> now,
              plannedClockOut |-> now + scheduledDurationMs,
              actualClockOut |-> NoNum,
              status |-> "IN_PROGRESS",
              km |-> 0]                      \* report.km: schema default
  IN
  /\ At(w, "ci_find")
  /\ IF existingActive(shifts, r)
     THEN Return(w, "clockIn", 409, NoMore)
     ELSE IF \/ scheduledStart = EpochMs     \* !+scheduledStart
             \/ scheduledEnd = EpochMs       \* !+scheduledEnd
             \/ scheduledEnd <= scheduledStart
     THEN Return(w, "clockIn", 500, NoMore)
     ELSE /\ Len(shifts) + PendingInserts < MaxShifts
          /\ Goto(w, "clockIn", "ci_insert", [at |-> now, shift |-> doc])
  /\ UNCHANGED <<now, requests, shifts, timesheets>>

\* Shift.create.
clockInShiftAsTrainer_insert(w) ==
  /\ At(w, "ci_insert")
  /\ shifts' = Append(shifts, calls[w].shift)
  /\ Goto(w, "clockIn", "ci_save", [shiftId |-> Len(shifts) + 1])
  /\ UNCHANGED <<now, requests, timesheets>>

\* A variant that also marks the request IN_PROGRESS.
clockInShiftAsTrainer_save_status(w) ==
  /\ At(w, "ci_save")
  /\ requests' = [requests EXCEPT ![calls[w].reqId].linkedShiftId = calls[w].shiftId,
                                  ![calls[w].reqId].status = "IN_PROGRESS"]
  /\ Return(w, "clockIn", 200, NoMore)
  /\ UNCHANGED <<now, shifts, timesheets>>

\* reqDoc.save() of clock-in: linkedShiftId is the one path assigned.
clockInShiftAsTrainer_save(w) ==
  /\ At(w, "ci_save")
  /\ requests' = [requests EXCEPT ![calls[w].reqId].linkedShiftId = calls[w].shiftId]
  /\ Return(w, "clockIn", 200, NoMore)
  /\ UNCHANGED <<now, shifts, timesheets>>

\* A variant that caps at the planned clock-out instead of the scheduled end.
auditOut_planned(at, shift) ==
  IF at > shift.plannedClockOut THEN shift.plannedClockOut ELSE at

\* The audited clock-out time of `shift` for a clock-out at `at`.
auditOut(at, shift) ==
  IF at > shift.scheduledEnd THEN shift.scheduledEnd ELSE at

\* A variant that bills the time actually worked.
billableMinutes_worked(reqDoc, shift) ==
  minutesBetween(shift.actualClockIn, shift.actualClockOut)

\* The minutes billed for `shift` of request `reqDoc`.
billableMinutes(reqDoc, shift) == minutesBetween(reqDoc.start, reqDoc.end)

\* clockOutShiftAsTrainer: the trainer profile and the request are loaded and
\* ownership is checked.
clockOutShiftAsTrainer_load(w, trainerUserId, shiftRequestId, km) ==
  LET trainer == TrainerByUserId(trainerUserId) IN
  /\ Free(w)
  /\ IF trainer = Null
     THEN Return(w, "clockOut", 404, NoMore)
     ELSE IF shiftRequestId > Len(requests)
     THEN Return(w, "clockOut", 404, NoMore)
     ELSE IF notAssignedTo(requests[shiftRequestId], trainer)
     THEN Return(w, "clockOut", 403, [reqId |-> shiftRequestId, trainerId |-> trainer])
     ELSE Goto(w, "clockOut", "co_find",
               [reqId |-> shiftRequestId, trainerId |-> trainer,
                km |-> km, shiftId |-> requests[shiftRequestId].linkedShiftId])
  /\ UNCHANGED <<now, requests, shifts, timesheets>>

\* Shift.findById(reqDoc.linkedShiftId) resolves; audit time, report and the
\* billing snapshot are set on the in-memory Shift.
clockOutShiftAsTrainer_find(w) ==
  LET r == calls[w].reqId
      sid == calls[w].shiftId
      scheduledStart == requests[r].start
      scheduledEnd == requests[r].end
      pricing == getPricingSnapshotForShift(shifts[sid])
      doc == [shifts[sid] EXCEPT
                !.actualClockOut = auditOut(now, shifts[sid]),
                !.status = "COMPLETED",
                !.km = calls[w].km]
      billing == [billableMinutes |-> billableMinutes(requests[r], doc),
                  hourlyRateCents |-> pricing.hourlyRateCents,
                  kmRateCents |-> pricing.kmRateCents,
                  scheduledStart |-> scheduledStart,
                  scheduledEnd |-> scheduledEnd]
  IN
  /\ At(w, "co_find")
  /\ IF sid = NoId
     THEN Return(w, "clockOut", 404, NoMore)
     ELSE Goto(w, "clockOut", "co_saveShift",
               [at |-> now, shift |-> [doc |-> doc, billing |-> billing]])
  /\ UNCHANGED <<now, requests, shifts, timesheets>>

\* shift.save(): actualClockOut, status and report are the declared paths
\* assigned.
clockOutShiftAsTrainer_saveShift(w) ==
  LET sid == calls[w].shiftId
      doc == calls[w].shift.doc
  IN
  /\ At(w, "co_saveShift")
  /\ shifts' = [shifts EXCEPT ![sid].actualClockOut = doc.actualClockOut,
                              ![sid].status = doc.status,
                              ![sid].km = doc.km]
  /\ Goto(w, "clockOut", "co_saveReq", NoMore)
  /\ UNCHANGED <<now, requests, timesheets>>

\* A variant that anchors the item to the scheduled start.
clockOutShiftAsTrainer_saveReq_start(w) ==
  LET c == calls[w]
      km == IF c.km = NoNum THEN 0 ELSE c.km
  IN
  /\ At(w, "co_saveReq")
  /\ requests' = [requests EXCEPT ![c.reqId].status = "COMPLETED"]
  /\ Goto(w, "clockOut", "ts_upsert",
          [args |-> [trainerId |-> c.shift.doc.trainerId,
                     participantId |-> c.shift.doc.participantId,
                     shiftId |-> c.shiftId,
                     date |-> c.shift.billing.scheduledStart,
                     minutes |-> c.shift.billing.billableMinutes,
                     km |-> km,
                     hourlyRateCents |-> c.shift.billing.hourlyRateCents,
                     kmRateCents |-> c.shift.billing.kmRateCents]])
  /\ UNCHANGED <<now, shifts, timesheets>>

\* reqDoc.save() of clock-out, then the call of upsertTimesheetForShift.
clockOutShiftAsTrainer_saveReq(w) ==
  LET c == calls[w]
      km == IF c.km = NoNum THEN 0 ELSE c.km
  IN
  /\ At(w, "co_saveReq")
  /\ requests' = [requests EXCEPT ![c.reqId].status = "COMPLETED"]
  /\ Goto(w, "clockOut", "ts_upsert",
          [args |-> [trainerId |-> c.shift.doc.trainerId,
                     participantId |-> c.shift.doc.participantId,
                     shiftId |-> c.shiftId,
                     date |-> c.shift.billing.scheduledEnd,
                     minutes |-> c.shift.billing.billableMinutes,
                     km |-> km,
                     hourlyRateCents |-> c.shift.billing.hourlyRateCents,
                     kmRateCents |-> c.shift.billing.kmRateCents]])
  /\ UNCHANGED <<now, shifts, timesheets>>

\* --------------------------------------------------------- timesheet upsert
RECURSIVE SumField(_, _)
SumField(items, f) ==
  IF items = <<>> THEN 0 ELSE items[1][f] + SumField(Tail(items), f)

\* items.findIndex(i => String(i.shiftId) === String(shiftId)), from 1; 0: none.
findIndex(items, shiftId) ==
  IF \E i \in 1..Len(items) : items[i].shiftId = shiftId
  THEN CHOOSE i \in 1..Len(items) :
         /\ items[i].shiftId = shiftId
         /\ \A j \in 1..(i - 1) : items[j].shiftId # shiftId
  ELSE 0

\* JavaScript numbers are IEEE-754 doubles.  A positive double is held as
\* [sig, exp]: the bits of its significand, most significant first, and the
\* weight of the last bit as a power of two; zero has no bits.  Integers are
\* taken apart in chunks so that every intermediate value stays below 2^31.
SigBits == 53
ChunkBits == 12
\* Chunks of the binary expansion produced after the point by a division.
FracChunks == 6

\* The w low bits of n.
fixedBits(n, w) == [i \in 1..w |-> (n \div 2^(w - i)) % 2]

bitLength(n) == CHOOSE w \in 0..30 : n < 2^w /\ (w = 0 \/ n >= 2^(w - 1))

Bits(n) == fixedBits(n, bitLength(n))

RECURSIVE Value(_)
Value(bits) ==
  IF bits = <<>> THEN 0
  ELSE 2 * Value(SubSeq(bits, 1, Len(bits) - 1)) + bits[Len(bits)]

StripZeros(bits) ==
  LET ones == {i \in 1..Len(bits) : bits[i] = 1} IN
  IF ones = {} THEN <<>>
  ELSE SubSeq(bits, CHOOSE i \in ones : \A j \in ones : i <= j, Len(bits))

Increment(bits) ==
  LET zeros == {i \in 1..Len(bits) : bits[i] = 0} IN
  IF zeros = {} THEN <<1>> \o [i \in 1..Len(bits) |-> 0]
  ELSE LET z == CHOOSE i \in zeros : \A j \in zeros : j <= i IN
       [i \in 1..Len(bits) |-> IF i < z THEN bits[i] ELSE IF i = z THEN 1 ELSE 0]

\* Round to nearest, ties to even: the double nearest to the number whose
\* expansion is `bits` with last bit of weight 2^exp, followed by something
\* more (not zero) when `sticky`.
roundToDouble(bits0, exp, sticky) ==
  LET bits == StripZeros(bits0)
      len == Len(bits)
      keep == SubSeq(bits, 1, SigBits)
      guard == bits[SigBits + 1]
      rest == sticky \/ \E i \in (SigBits + 2)..len : bits[i] = 1
      up == guard = 1 /\ (rest \/ keep[SigBits] = 1)
  IN IF len <= SigBits
     THEN [sig |-> bits, exp |-> exp]
     ELSE [sig |-> IF up THEN Increment(keep) ELSE keep,
           exp |-> exp + (len - SigBits)]

\* The first n chunks of bits after the point of r / d, for 0 <= r < d.
RECURSIVE fractionBits(_, _, _)
fractionBits(r, d, n) ==
  IF n = 0 THEN <<>>
  ELSE fixedBits((r * 2^ChunkBits) \div d, ChunkBits)
         \o fractionBits((r * 2^ChunkBits) % d, d, n - 1)

\* What is left of r / d after those chunks.
RECURSIVE fractionRest(_, _, _)
fractionRest(r, d, n) ==
  IF n = 0 THEN r ELSE fractionRest((r * 2^ChunkBits) % d, d, n - 1)

\* n / d in doubles, for integers n >= 0 and d > 0.
divide(n, d) ==
  roundToDouble(Bits(n \div d) \o fractionBits(n % d, d, FracChunks),
                0 - FracChunks * ChunkBits,
                fractionRest(n % d, d, FracChunks) # 0)

\* bits times the integer k, plus carry, a chunk at a time from the right.
RECURSIVE timesInt(_, _, _)
timesInt(bits, k, carry) ==
  IF bits = <<>> THEN Bits(carry)
  ELSE LET len == Len(bits)
           w == IF len < ChunkBits THEN len ELSE ChunkBits
           v == Value(SubSeq(bits, len - w + 1, len)) * k + carry
       IN timesInt(SubSeq(bits, 1, len - w), k, v \div 2^w) \o fixedBits(v, w)

\* x * k in doubles, for a double x and an integer k >= 0.
multiply(x, k) == roundToDouble(timesInt(x.sig, k, 0), x.exp, FALSE)

\* Math.round of a double x >= 0: the nearest integer, a half going up.
mathRound(x) ==
  LET len == Len(x.sig)
      int == len + x.exp          \* number of bits before the point
  IN IF x.exp >= 0 THEN Value(x.sig \o [i \in 1..x.exp |-> 0])
     ELSE IF int < 0 THEN 0
     ELSE Value(SubSeq(x.sig, 1, int)) + x.sig[int + 1]

\* hours = minutes / 60; amountCents = Math.round(hours * hourlyRateCents).
roundedAmount(minutes, hourlyRateCents) ==
  mathRound(multiply(divide(minutes, 60), hourlyRateCents))

\* The amounts for short shifts at the rates in use, computed once.
MaxTabled == 180
TabledRates == {HourlyRateCents, HourlyRateCents + 10}
amountTable ==
  [minutes \in 0..MaxTabled |->
     [rate \in TabledRates |-> roundedAmount(minutes, rate)]]

amountCentsOf(minutes, hourlyRateCents) ==
  IF minutes \in 0..MaxTabled /\ hourlyRateCents \in TabledRates
  THEN amountTable[minutes][hourlyRateCents]
  ELSE roundedAmount(minutes, hourlyRateCents)

\* The line item of a shift, with the fields TimesheetItemSchema declares.
buildItem(a) ==
  LET amountCents == amountCentsOf(a.minutes, a.hourlyRateCents)
      mileageCents == a.km * a.kmRateCents
  IN [shiftId |-> a.shiftId, participantId |-> a.participantId, date |-> a.date,
      hours |-> a.minutes, km |-> a.km,
      amountCents |-> amountCents, mileageCents |-> mileageCents,
      totalCents |-> amountCents + mileageCents]

\* A variant that always pushes.
replaceOrAppend_push(items, item) == Append(items, item)

\* Replace the item of the same shiftId, or append.
replaceOrAppend(items, item) ==
  LET idx == findIndex(items, item.shiftId) IN
  IF idx > 0 THEN [items EXCEPT ![idx] = item] ELSE Append(items, item)

\* A variant that sums the items without the last one.
recomputeTotals_stale(items) ==
  LET old == SubSeq(items, 1, Len(items) - 1) IN
  [hours |-> SumField(old, "hours"),
   km |-> SumField(old, "km"),
   amountCents |-> SumField(old, "amountCents"),
   mileageCents |-> SumField(old, "mileageCents"),
   totalCents |-> SumField(old, "amountCents") + SumField(old, "mileageCents")]

\* The totals recomputed over the items.
recomputeTotals(items) ==
  [hours |-> SumField(items, "hours"),
   km |-> SumField(items, "km"),
   amountCents |-> SumField(items, "amountCents"),
   mileageCents |-> SumField(items, "mileageCents"),
   totalCents |-> SumField(items, "amountCents") + SumField(items, "mileageCents")]

\* Timesheet.findOne({ trainerId, weekStart }): the document's index, 0: none.
findTimesheet(tss, trainerId, weekStart) ==
  IF \E i \in 1..Len(tss) : tss[i].trainerId = trainerId /\ tss[i].weekStart = weekStart
  THEN CHOOSE i \in 1..Len(tss) :
         /\ tss[i].trainerId = trainerId /\ tss[i].weekStart = weekStart
         /\ \A j \in 1..(i - 1) :
              ~(tss[j].trainerId = trainerId /\ tss[j].weekStart = weekStart)
  ELSE 0

\* A variant that inserts without looking.
upsertByTrainerWeek_insert(tss, trainerId, weekStart, weekEnd) ==
  Append(tss, [trainerId |-> trainerId, weekStart |-> weekStart,
               weekEnd |-> weekEnd, status |-> "DRAFT", items |-> <<>>,
               totals |-> [hours |-> 0, km |-> 0, amountCents |-> 0,
                           mileageCents |-> 0, totalCents |-> 0]])

\* findOneAndUpdate({ trainerId, weekStart }, { $setOnInsert }, { upsert }) under
\* the unique index on (trainerId, weekStart): the collection afterwards.
upsertByTrainerWeek(tss, trainerId, weekStart, weekEnd) ==
  IF findTimesheet(tss, trainerId, weekStart) > 0 THEN tss
  ELSE Append(tss, [trainerId |-> trainerId, weekStart |-> weekStart,
                    weekEnd |-> weekEnd, status |-> "DRAFT", items |-> <<>>,
                    totals |-> [hours |-> 0, km |-> 0, amountCents |-> 0,
                                mileageCents |-> 0, totalCents |-> 0]])

\* upsertTimesheetForShift up to its save, called with `a` (km and kmRateCents
\* default to 0): the week's Timesheet is found or created, and items and
\* totals are rebuilt on the in-memory document.
upsertTimesheetForShift(w, op, a0) ==
  LET a == [a0 EXCEPT !.km = IF @ = NoNum THEN 0 ELSE @,
                      !.kmRateCents = IF @ = NoNum THEN 0 ELSE @]
      weekStart == startOfWeekUTC(a.date)
      weekEnd == endOfWeekUTC(weekStart)
      after == upsertByTrainerWeek(timesheets, a.trainerId, weekStart, weekEnd)
      id == findTimesheet(after, a.trainerId, weekStart)
      items == replaceOrAppend(after[id].items, buildItem(a))
  IN
  /\ timesheets' = after
  /\ Goto(w, op, "ts_save",
          [tsId |-> id, args |-> a,
           ts |-> [items |-> items, totals |-> recomputeTotals(items),
                   weekEnd |-> weekEnd, stale |-> FALSE]])
  /\ UNCHANGED <<now, requests, shifts>>

\* The upsert of a clock-out.
upsertTimesheetForShift_upsert(w) ==
  /\ At(w, "ts_upsert")
  /\ upsertTimesheetForShift(w, calls[w].op, calls[w].args)

\* upsertTimesheetForShift called on its own.
UpsertTrainers == {"t1"}
UpsertDates == {StartNow, WeekMs + DayMs}
UpsertShiftIds == {1, 2}
\* <<minutes, km, kmRateCents, hourlyRateCents>>
UpsertAmounts == {<<31, NoNum, NoNum, HourlyRateCents>>,
                  <<61, 12, KmRateCents, HourlyRateCents>>}

upsertTimesheetForShift_call(w, trainerId, shiftId, date, amount) ==
  /\ Free(w)
  /\ upsertTimesheetForShift(w, "upsertTimesheetForShift",
       [trainerId |-> trainerId, participantId |-> "p1", shiftId |-> shiftId,
        date |-> date, minutes |-> amount[1], km |-> amount[2],
        hourlyRateCents |-> amount[4], kmRateCents |-> amount[3]])

\* A variant that does not write the items.
upsertTimesheetForShift_save_totals(w) ==
  LET c == calls[w] IN
  /\ At(w, "ts_save")
  /\ timesheets' = [timesheets EXCEPT ![c.tsId].totals = c.ts.totals,
                                      ![c.tsId].weekEnd = c.ts.weekEnd]
  /\ Return(w, c.op, 200, NoMore)
  /\ UNCHANGED <<now, requests, shifts>>

\* A variant that writes without the version test.
upsertTimesheetForShift_save_overwrite(w) ==
  LET c == calls[w] IN
  /\ At(w, "ts_save")
  /\ timesheets' = [timesheets EXCEPT ![c.tsId].items = c.ts.items,
                                      ![c.tsId].totals = c.ts.totals,
                                      ![c.tsId].weekEnd = c.ts.weekEnd]
  /\ Return(w, c.op, 200, NoMore)
  /\ UNCHANGED <<now, requests, shifts>>

\* A variant that also puts the Timesheet back to DRAFT.
upsertTimesheetForShift_save_draft(w) ==
  LET c == calls[w] IN
  /\ At(w, "ts_save")
  /\ timesheets' = [timesheets EXCEPT ![c.tsId].items = c.ts.items,
                                      ![c.tsId].totals = c.ts.totals,
                                      ![c.tsId].weekEnd = c.ts.weekEnd,
                                      ![c.tsId].status = "DRAFT"]
  /\ Return(w, c.op, 200, NoMore)
  /\ UNCHANGED <<now, requests, shifts>>

\* ts.save(): items, totals and weekEnd are the paths assigned.  Assigning the
\* items array makes the save conditional on the version key (__v) the
\* document was loaded with and makes it increment the key; a save whose
\* version is no longer the stored one updates nothing and throws
\* VersionError, which no handler catches (500).  The key is held relative to
\* the stored one: `stale` says that the stored key has moved on since this
\* call loaded the document, which a successful save makes true of every
\* other copy loaded and not yet saved.
upsertTimesheetForShift_save(w) ==
  LET c == calls[w]
      returned == [f \in DOMAIN IdleCall |->
                     IF f = "pc" THEN "done" ELSE IF f = "res" THEN 200 ELSE c[f]]
      outdated(v) == /\ v # w
                     /\ calls[v].pc = "ts_save"
                     /\ calls[v].tsId = c.tsId
  IN
  /\ At(w, "ts_save")
  /\ IF c.ts.stale
     THEN /\ Return(w, c.op, 500, NoMore)
          /\ UNCHANGED timesheets
     ELSE /\ timesheets' = [timesheets EXCEPT ![c.tsId].items = c.ts.items,
                                              ![c.tsId].totals = c.ts.totals,
                                              ![c.tsId].weekEnd = c.ts.weekEnd]
          /\ calls' = [v \in Workers |->
                         IF v = w THEN returned
                         ELSE IF outdated(v)
                         THEN [calls[v] EXCEPT !.ts.stale = TRUE]
                         ELSE calls[v]]
  /\ UNCHANGED <<now, requests, shifts>>

\* ------------------------------------------------------- timesheet workflow
\* Timesheet ids sent by callers; the last one names no document.
TimesheetInputs == {1, 2, 3}
AdminInputs == {"admin"}

\* A variant that also approves a DRAFT.
canApprove_draft(status) == status \in {"DRAFT", "SUBMITTED", "REOPENED"}

\* The statuses approveTimesheet and reopenTimesheet accept.
canApprove(status) == status \in {"SUBMITTED", "REOPENED"}
canReopen(status) == status \in {"SUBMITTED", "APPROVED"}

\* submitTimesheet up to its save: the document is loaded, its status is set.
submitTimesheet_load(w, id) ==
  /\ Free(w)
  /\ IF id > Len(timesheets)
     THEN Return(w, "submitTimesheet", 404, NoMore)
     ELSE Goto(w, "submitTimesheet", "sub_save",
               [tsId |-> id, ts |-> [status |-> "SUBMITTED"]])
  /\ UNCHANGED <<now, requests, shifts, timesheets>>

\* approveTimesheet up to its save.
approveTimesheet_load(w, id) ==
  /\ Free(w)
  /\ IF id > Len(timesheets)
     THEN Return(w, "approveTimesheet", 404, NoMore)
     ELSE IF ~canApprove(timesheets[id].status)
     THEN Return(w, "approveTimesheet", 409, [tsId |-> id])
     ELSE Goto(w, "approveTimesheet", "ap_save",
               [tsId |-> id, ts |-> [status |-> "APPROVED"]])
  /\ UNCHANGED <<now, requests, shifts, timesheets>>

\* (ts as any).audit ?? []: the audit log a document carries.  TimesheetSchema
\* declares no audit path, so a stored Timesheet carries none.
auditOf(ts) == IF "audit" \in DOMAIN ts THEN ts.audit ELSE <<>>

\* reopenTimesheet up to its save; the audit note is put on the in-memory
\* document.
reopenTimesheet_load(w, id, adminUserId) ==
  /\ Free(w)
  /\ IF id > Len(timesheets)
     THEN Return(w, "reopenTimesheet", 404, NoMore)
     ELSE IF ~canReopen(timesheets[id].status)
     THEN Return(w, "reopenTimesheet", 409, [tsId |-> id])
     ELSE Goto(w, "reopenTimesheet", "ro_save",
               [tsId |-> id,
                ts |-> [status |-> "REOPENED",
                        audit |-> Append(auditOf(timesheets[id]),
                                         [by |-> adminUserId, at |-> now])]])
  /\ UNCHANGED <<now, requests, shifts, timesheets>>

\* ts.save() of the three: status is the declared path assigned.
saveStatus(w, op, pc) ==
  /\ At(w, pc)
  /\ timesheets' = [timesheets EXCEPT ![calls[w].tsId].status = calls[w].ts.status]
  /\ Return(w, op, 200, NoMore)
  /\ UNCHANGED <<now, requests, shifts>>

submitTimesheet_save(w) == saveStatus(w, "submitTimesheet", "sub_save")
approveTimesheet_save(w) == saveStatus(w, "approveTimesheet", "ap_save")
reopenTimesheet_save(w) == saveStatus(w, "reopenTimesheet", "ro_save")

\* ------------------------------------------------------------ specification
\* Calls overlap: two handlers in flight, their storage round trips
\* interleaved, within one reading of the clock.  The inputs are those of one
\* participant and one trainer.
RaceWindows == {<<StartNow, StartNow + 3 * TickMs>>}
RaceTrainers == {"t1"}
RaceCallers == {"u1"}
RaceKm == {12}

Next ==
  \/ \E w \in Workers : Respond(w)
  \/ \E w \in Workers, win \in RaceWindows : createShiftRequest(w, "p1", "p1", win)
  \/ \E w \in Workers, r \in RequestInputs, t \in RaceTrainers :
       approveAndAssign_load(w, r, t)
  \/ \E w \in Workers : approveAndAssign_save(w)
  \/ \E w \in Workers : approveAndAssign_notify(w)
  \/ \E w \in Workers, r \in RequestInputs : decline_load(w, r)
  \/ \E w \in Workers : decline_save(w)
  \/ \E w \in Workers, u \in RaceCallers, r \in RequestInputs :
       clockInShiftAsTrainer_load(w, u, r)
  \/ \E w \in Workers : clockInShiftAsTrainer_find(w)
  \/ \E w \in Workers : clockInShiftAsTrainer_insert(w)
  \/ \E w \in Workers : clockInShiftAsTrainer_save(w)
  \/ \E w \in Workers, u \in RaceCallers, r \in RequestInputs, km \in RaceKm :
       clockOutShiftAsTrainer_load(w, u, r, km)
  \/ \E w \in Workers : clockOutShiftAsTrainer_find(w)
  \/ \E w \in Workers : clockOutShiftAsTrainer_saveShift(w)
  \/ \E w \in Workers : clockOutShiftAsTrainer_saveReq(w)
  \/ \E w \in Workers : upsertTimesheetForShift_upsert(w)
  \/ \E w \in Workers : upsertTimesheetForShift_save(w)

Spec == Init /\ [][Next]_vars

\* One call at a time: every call returns before the next one starts.
NextSeq ==
  \/ Tick
  \/ Respond(1)
  \/ \E p \in ParticipantInputs, u \in RequesterInputs, win \in Windows :
       createShiftRequest(1, p, u, win)
  \/ \E r \in RequestInputs, t \in TrainerInputs : approveAndAssign_load(1, r, t)
  \/ approveAndAssign_save(1)
  \/ approveAndAssign_notify(1)
  \/ \E r \in RequestInputs : decline_load(1, r)
  \/ decline_save(1)
  \/ \E u \in CallerInputs, r \in RequestInputs : clockInShiftAsTrainer_load(1, u, r)
  \/ clockInShiftAsTrainer_find(1)
  \/ clockInShiftAsTrainer_insert(1)
  \/ clockInShiftAsTrainer_save(1)
  \/ \E u \in CallerInputs, r \in RequestInputs, km \in KmInputs :
       clockOutShiftAsTrainer_load(1, u, r, km)
  \/ clockOutShiftAsTrainer_find(1)
  \/ clockOutShiftAsTrainer_saveShift(1)
  \/ clockOutShiftAsTrainer_saveReq(1)
  \/ upsertTimesheetForShift_upsert(1)
  \/ upsertTimesheetForShift_save(1)

SpecSeq == Init /\ [][NextSeq]_vars

\* One working day, one call at a time: a Tuesday that starts at 09:15 and
\* whose clock advances by 2 h 05 min, with one trainer.
DayOpen == DayMs + 9 * 60 * MsPerMinute
DayStartNow == DayOpen + 15 * MsPerMinute
DayClose == DayOpen + 120 * MsPerMinute
DayTickMs == 125 * MsPerMinute
DayWindows ==
  { <<DayOpen, DayClose>>,                                        \* 09:00-11:00
    <<DayStartNow - MIN_MINUTES * MsPerMinute, DayStartNow>>,     \* 30 min, ends now
    <<DayStartNow - MIN_MINUTES * MsPerMinute + 1, DayStartNow>>, \* 1 ms short
    <<DayStartNow - 2 * MIN_MINUTES * MsPerMinute, DayStartNow - 1>>, \* ended 1 ms ago
    <<DayClose, DayClose>>,                                       \* start = end
    <<DayClose, DayOpen>> }                                       \* start > end

InitDay ==
  /\ now = DayStartNow
  /\ requests = <<>>
  /\ shifts = <<>>
  /\ timesheets = <<>>
  /\ calls = [w \in Workers |-> IdleCall]

TickDay ==
  /\ Quiet
  /\ now < DayStartNow + MaxTicks * DayTickMs
  /\ now' = now + DayTickMs
  /\ UNCHANGED <<requests, shifts, timesheets, calls>>

NextDay ==
  \/ TickDay
  \/ Respond(1)
  \/ \E p \in ParticipantInputs, u \in RequesterInputs, win \in DayWindows :
       createShiftRequest(1, p, u, win)
  \/ \E r \in RequestInputs, t \in RaceTrainers : approveAndAssign_load(1, r, t)
  \/ approveAndAssign_save(1)
  \/ approveAndAssign_notify(1)
  \/ \E u \in RaceCallers, r \in RequestInputs : clockInShiftAsTrainer_load(1, u, r)
  \/ clockInShiftAsTrainer_find(1)
  \/ clockInShiftAsTrainer_insert(1)
  \/ clockInShiftAsTrainer_save(1)
  \/ \E u \in RaceCallers, r \in RequestInputs, km \in KmInputs :
       clockOutShiftAsTrainer_load(1, u, r, km)
  \/ clockOutShiftAsTrainer_find(1)
  \/ clockOutShiftAsTrainer_saveShift(1)
  \/ clockOutShiftAsTrainer_saveReq(1)
  \/ upsertTimesheetForShift_upsert(1)
  \/ upsertTimesheetForShift_save(1)

SpecDay == InitDay /\ [][NextDay]_vars

\* The timesheet service alone, one call at a time: upserts with any
\* arguments, and the status workflow.
NextTimesheet ==
  \/ Respond(1)
  \/ \E t \in UpsertTrainers, sh \in UpsertShiftIds, d \in UpsertDates,
        amount \in UpsertAmounts : upsertTimesheetForShift_call(1, t, sh, d, amount)
  \/ upsertTimesheetForShift_save(1)
  \/ \E id \in TimesheetInputs : submitTimesheet_load(1, id)
  \/ submitTimesheet_save(1)
  \/ \E id \in TimesheetInputs : approveTimesheet_load(1, id)
  \/ approveTimesheet_save(1)
  \/ \E id \in TimesheetInputs, u \in AdminInputs : reopenTimesheet_load(1, id, u)
  \/ reopenTimesheet_save(1)

SpecTimesheet == Init /\ [][NextTimesheet]_vars

\* upsertTimesheetForShift alone, on the line item of one shift: minutes, km
\* present or absent, kmRateCents present or absent, and two hourly rates.
ItemMinutes == {30, 65, 120}
ItemAmounts ==
  {<<minutes, km, kmRateCents, rate>> :
     minutes \in ItemMinutes, km \in {NoNum, 0, 12},
     kmRateCents \in {NoNum, KmRateCents}, rate \in TabledRates}

NextItem ==
  \/ Respond(1)
  \/ \E amount \in ItemAmounts :
       upsertTimesheetForShift_call(1, "t1", 1, StartNow, amount)
  \/ upsertTimesheetForShift_save(1)

SpecItem == Init /\ [][NextItem]_vars

\* Requests created, approved and clocked in, one call at a time, for windows
\* that start long before the call: at getTime() 0, one millisecond later, and
\* on the evening of the call; the last one is degenerate.
LongWindows ==
  { <<EpochMs, StartNow + 3 * TickMs>>,
    <<EpochMs + 1, StartNow + 3 * TickMs>>,
    <<StartNow, StartNow + 3 * TickMs>>,
    <<StartNow + 2 * TickMs, StartNow + 2 * TickMs>> }

NextWindow ==
  \/ Tick
  \/ Respond(1)
  \/ \E u \in RequesterInputs, win \in LongWindows :
       createShiftRequest(1, "p1", u, win)
  \/ \E r \in RequestInputs, t \in RaceTrainers : approveAndAssign_load(1, r, t)
  \/ approveAndAssign_save(1)
  \/ approveAndAssign_notify(1)
  \/ \E u \in CallerInputs, r \in RequestInputs : clockInShiftAsTrainer_load(1, u, r)
  \/ clockInShiftAsTrainer_find(1)
  \/ clockInShiftAsTrainer_insert(1)
  \/ clockInShiftAsTrainer_save(1)

SpecWindow == Init /\ [][NextWindow]_vars

\* Overlapping clock-outs of one trainer's two shifts of one week.  At the
\* start both requests have been created, approved for t1 and clocked in at
\* StartNow; both are scheduled to end that Sunday evening.
OutWindows == <<
  <<StartNow - 6 * TickMs, StartNow>>,
  <<StartNow - 3 * TickMs, StartNow>> >>

InitClockOut ==
  /\ now = StartNow
  /\ requests =
       [r \in 1..2 |->
          [participantId |-> "p1", start |-> OutWindows[r][1],
           end |-> OutWindows[r][2], status |-> "APPROVED",
           assignedTrainerId |-> "t1", linkedShiftId |-> r]]
  /\ shifts =
       [r \in 1..2 |->
          [shiftRequestId |-> r, participantId |-> "p1", trainerId |-> "t1",
           scheduledStart |-> OutWindows[r][1],
           scheduledEnd |-> OutWindows[r][2],
           scheduledDurationMinutes |->
             RoundDiv(OutWindows[r][2] - OutWindows[r][1], MsPerMinute),
           actualClockIn |-> StartNow,
           plannedClockOut |-> StartNow + (OutWindows[r][2] - OutWindows[r][1]),
           actualClockOut |-> NoNum, status |-> "IN_PROGRESS", km |-> 0]]
  /\ timesheets = <<>>
  /\ calls = [w \in Workers |-> IdleCall]

NextClockOut ==
  \/ \E w \in Workers : Respond(w)
  \/ \E w \in Workers, u \in RaceCallers, r \in 1..2, km \in RaceKm :
       clockOutShiftAsTrainer_load(w, u, r, km)
  \/ \E w \in Workers : clockOutShiftAsTrainer_find(w)
  \/ \E w \in Workers : clockOutShiftAsTrainer_saveShift(w)
  \/ \E w \in Workers : clockOutShiftAsTrainer_saveReq(w)
  \/ \E w \in Workers : upsertTimesheetForShift_upsert(w)
  \/ \E w \in Workers : upsertTimesheetForShift_save(w)

SpecClockOut == InitClockOut /\ [][NextClockOut]_vars

\* -------------------------------------------------------------- properties
Min(a, b) == IF a <= b THEN a ELSE b

\* Worker w has returned from `op` with `status`.
Returned(w, op, status) ==
  calls[w].pc = "done" /\ calls[w].op = op /\ calls[w].res = status

\* Worker w takes the first step of a call of `op` in this step.
Starts(w, op) == calls[w].pc = "idle" /\ calls'[w].op = op

\* Worker w leaves step pc in this step.
Leaves(w, pc) == calls[w].pc = pc /\ calls'[w].pc # pc

\* C1: every stored Timesheet's totals are the sums of its items: totalCents
\* is the sum of the items' totalCents, amountCents of their amountCents,
\* mileageCents of their mileageCents, km of their km and hours of their
\* hours, after any sequence of upsertTimesheetForShift calls, re-upserts of a
\* shiftId with other minutes or km included.
C1_TotalsAreSums ==
  \A i \in 1..Len(timesheets) :
    LET t == timesheets[i] IN
    /\ t.totals.totalCents = SumField(t.items, "totalCents")
    /\ t.totals.amountCents = SumField(t.items, "amountCents")
    /\ t.totals.mileageCents = SumField(t.items, "mileageCents")
    /\ t.totals.km = SumField(t.items, "km")
    /\ t.totals.hours = SumField(t.items, "hours")

\* An upsert has returned after replacing the first of two items, which now
\* carries mileage while the second carries none.
C1_Witness ==
  /\ Returned(1, "upsertTimesheetForShift", 200)
  /\ LET t == timesheets[calls[1].tsId] IN
     /\ Len(t.items) = 2
     /\ t.items[1].shiftId = calls[1].args.shiftId
     /\ t.items[1].mileageCents > 0
     /\ t.items[2].mileageCents = 0
     /\ t.totals.totalCents = t.items[1].totalCents + t.items[2].totalCents

\* C2: at most one Shift with status IN_PROGRESS exists per ShiftRequest, in
\* every reachable state and every interleaving of concurrent clock-ins.
C2_AtMostOneInProgress ==
  \A r \in 1..Len(requests) :
    Cardinality({i \in 1..Len(shifts) :
                   shifts[i].shiftRequestId = r /\ shifts[i].status = "IN_PROGRESS"}) <= 1

\* C3: a clock-out at time `at` stores actualClockOut = min(at, scheduledEnd),
\* so the stored clock-out never lies after the scheduled end.
C3_ClockOutCapped ==
  /\ \A i \in 1..Len(shifts) :
       shifts[i].status = "COMPLETED" =>
         /\ shifts[i].actualClockOut # NoNum
         /\ shifts[i].actualClockOut <= shifts[i].scheduledEnd
  /\ \A w \in Workers :
       (/\ calls[w].op = "clockOut"
        /\ \/ calls[w].pc \in {"co_saveReq", "ts_upsert", "ts_save"}
           \/ Returned(w, "clockOut", 200))
       => shifts[calls[w].shiftId].actualClockOut
            = Min(calls[w].at, shifts[calls[w].shiftId].scheduledEnd)

\* A clock-out after the scheduled end, of a shift whose planned clock-out lies
\* later still, has returned.
C3_Witness ==
  /\ Returned(1, "clockOut", 200)
  /\ LET sh == shifts[calls[1].shiftId] IN
     /\ calls[1].at > sh.scheduledEnd
     /\ sh.plannedClockOut > calls[1].at
     /\ sh.actualClockOut = sh.scheduledEnd

\* C4: the billable minutes of a clock-out, and the hours of the Timesheet
\* item it writes, are the length of the scheduled window in minutes, rounded,
\* whatever the clock-in and clock-out times were.
C4_BillableIsScheduled ==
  /\ \A w \in Workers :
       (/\ calls[w].op = "clockOut"
        /\ \/ calls[w].pc \in {"co_saveShift", "co_saveReq", "ts_upsert", "ts_save"}
           \/ Returned(w, "clockOut", 200))
       => LET sh == shifts[calls[w].shiftId] IN
          /\ calls[w].shift.billing.billableMinutes
               = Max(0, RoundDiv(sh.scheduledEnd - sh.scheduledStart, MsPerMinute))
          /\ calls[w].shift.billing.billableMinutes = sh.scheduledDurationMinutes
  /\ \A i \in 1..Len(timesheets) :
       \A k \in 1..Len(timesheets[i].items) :
         LET it == timesheets[i].items[k]
             sh == shifts[it.shiftId]
         IN it.hours = Max(0, RoundDiv(sh.scheduledEnd - sh.scheduledStart, MsPerMinute))

\* A shift clocked in an hour late and clocked out after its scheduled end has
\* been billed: no time worked inside the window, 61 minutes on the item.
C4_Witness ==
  /\ Returned(1, "clockOut", 200)
  /\ LET sh == shifts[calls[1].shiftId] IN
     /\ sh.actualClockIn > sh.scheduledStart
     /\ sh.actualClockOut = sh.actualClockIn
     /\ calls[1].shift.billing.billableMinutes = 61
     /\ \E k \in 1..Len(timesheets[calls[1].tsId].items) :
          /\ timesheets[calls[1].tsId].items[k].shiftId = calls[1].shiftId
          /\ timesheets[calls[1].tsId].items[k].hours = 61

\* C5: submitTimesheet on a DRAFT Timesheet goes on to save it as SUBMITTED;
\* on a Timesheet of any other status, APPROVED in particular, it fails with
\* 409 and leaves the Timesheet as it is.
C5_SubmitOnlyDraft ==
  [][\A w \in Workers :
       /\ (Starts(w, "submitTimesheet") /\ calls'[w].tsId # NoId) =>
            IF timesheets[calls'[w].tsId].status = "DRAFT"
            THEN calls'[w].pc = "sub_save"
            ELSE /\ calls'[w].pc = "done"
                 /\ calls'[w].res = 409
                 /\ timesheets' = timesheets
       /\ Leaves(w, "sub_save") =>
            /\ calls'[w].res = 200
            /\ timesheets'[calls[w].tsId].status = "SUBMITTED"
    ]_vars

\* C6: approveTimesheet succeeds exactly on a SUBMITTED or REOPENED Timesheet
\* and makes it APPROVED; reopenTimesheet succeeds exactly on a SUBMITTED or
\* APPROVED Timesheet and makes it REOPENED; on any other status either fails
\* with 409 and leaves the Timesheet as it is.
C6_ApproveReopenGuards ==
  [][\A w \in Workers :
       /\ (Starts(w, "approveTimesheet") /\ calls'[w].tsId # NoId) =>
            /\ timesheets' = timesheets
            /\ IF timesheets[calls'[w].tsId].status \in {"SUBMITTED", "REOPENED"}
               THEN calls'[w].pc = "ap_save"
               ELSE calls'[w].pc = "done" /\ calls'[w].res = 409
       /\ Leaves(w, "ap_save") =>
            /\ calls'[w].pc = "done" /\ calls'[w].res = 200
            /\ timesheets[calls[w].tsId].status \in {"SUBMITTED", "REOPENED"}
            /\ timesheets' = [timesheets EXCEPT ![calls[w].tsId].status = "APPROVED"]
       /\ (Starts(w, "reopenTimesheet") /\ calls'[w].tsId # NoId) =>
            /\ timesheets' = timesheets
            /\ IF timesheets[calls'[w].tsId].status \in {"SUBMITTED", "APPROVED"}
               THEN calls'[w].pc = "ro_save"
               ELSE calls'[w].pc = "done" /\ calls'[w].res = 409
       /\ Leaves(w, "ro_save") =>
            /\ calls'[w].pc = "done" /\ calls'[w].res = 200
            /\ timesheets[calls[w].tsId].status \in {"SUBMITTED", "APPROVED"}
            /\ timesheets' = [timesheets EXCEPT ![calls[w].tsId].status = "REOPENED"]
    ]_vars

\* approveTimesheet on an APPROVED Timesheet has returned 409.
C6_Witness ==
  /\ Returned(1, "approveTimesheet", 409)
  /\ timesheets[calls[1].tsId].status = "APPROVED"

\* C7: approveAndAssign gets to its save only on a PENDING_ADMIN request, and
\* the save makes the request APPROVED with assignedTrainerId the trainer
\* given; called on a request of any other status, as a second call after the
\* first has returned is, it fails with 409 and leaves the request as it is.
C7_ApproveOnlyPending ==
  [][\A w \in Workers :
       /\ (Starts(w, "approveAndAssign") /\ calls'[w].reqId # NoId) =>
            /\ requests' = requests
            /\ IF requests[calls'[w].reqId].status = "PENDING_ADMIN"
               THEN calls'[w].pc = "aa_save" \/ calls'[w].res \in {400, 404}
               ELSE calls'[w].pc = "done" /\ calls'[w].res = 409
       /\ Leaves(w, "aa_save") =>
            /\ requests[calls[w].reqId].status = "PENDING_ADMIN"
            /\ requests' = [requests EXCEPT
                              ![calls[w].reqId].status = "APPROVED",
                              ![calls[w].reqId].assignedTrainerId = calls[w].trainerId]
       /\ Leaves(w, "aa_notify") =>
            /\ calls'[w].pc = "done" /\ calls'[w].res = 200
            /\ requests' = requests
            /\ requests[calls[w].reqId].status = "APPROVED"
            /\ requests[calls[w].reqId].assignedTrainerId = calls[w].trainerId
    ]_vars

\* A second approveAndAssign, for another trainer, has returned 409 and the
\* request is still APPROVED for the first trainer.
C7_Witness ==
  /\ Returned(1, "approveAndAssign", 409)
  /\ requests[calls[1].reqId].status = "APPROVED"
  /\ requests[calls[1].reqId].assignedTrainerId = "t1"
  /\ calls[1].trainerId = "t2"

\* A Shift IN_PROGRESS is stored for request r.
HasInProgress(r) ==
  \E i \in 1..Len(shifts) :
    shifts[i].shiftRequestId = r /\ shifts[i].status = "IN_PROGRESS"

\* C8: while a Shift IN_PROGRESS exists for a request, a clock-in on that
\* request, made after the first one returned, fails (409 for the assigned
\* trainer), creates no Shift and leaves the request's linkedShiftId as it is.
C8_SecondClockInRejected ==
  [][\A w \in Workers :
       /\ (/\ Starts(w, "clockIn")
           /\ calls'[w].reqId # NoId
           /\ HasInProgress(calls'[w].reqId)) =>
            /\ shifts' = shifts /\ requests' = requests
            /\ \/ calls'[w].pc = "ci_find"
               \/ /\ calls'[w].pc = "done"
                  /\ calls'[w].res =
                       IF requests[calls'[w].reqId].assignedTrainerId = calls'[w].trainerId
                       THEN 409 ELSE 403
       /\ (Leaves(w, "ci_find") /\ HasInProgress(calls[w].reqId)) =>
            /\ shifts' = shifts /\ requests' = requests
            /\ calls'[w].pc = "done" /\ calls'[w].res = 409
    ]_vars

\* The assigned trainer's second clock-in has returned 409: one Shift exists,
\* IN_PROGRESS, and the request links to it.
C8_Witness ==
  /\ Returned(1, "clockIn", 409)
  /\ calls[1].reqId # NoId
  /\ requests[calls[1].reqId].assignedTrainerId = calls[1].trainerId
  /\ Len(shifts) = 1
  /\ shifts[1].status = "IN_PROGRESS"
  /\ shifts[1].shiftRequestId = calls[1].reqId
  /\ requests[calls[1].reqId].linkedShiftId = 1

\* No Timesheet of tss holds two items of one shiftId.
NoDuplicateShiftIds(tss) ==
  \A i \in 1..Len(tss) :
    \A j, k \in 1..Len(tss[i].items) :
      j # k => tss[i].items[j].shiftId # tss[i].items[k].shiftId

\* C9: a Timesheet holds at most one item per shiftId; an upsert of a shiftId
\* the Timesheet holds replaces that item where it is, the other items and the
\* item count staying as they are, and an upsert of a new shiftId appends
\* exactly one item.
C9_OneItemPerShift ==
  [][/\ NoDuplicateShiftIds(timesheets')
     /\ \A w \in Workers :
          (calls[w].pc = "ts_save" /\ calls'[w].pc = "done") =>
            LET old == timesheets[calls[w].tsId].items
                new == timesheets'[calls[w].tsId].items
                sh == calls[w].args.shiftId
            IN IF \E j \in 1..Len(old) : old[j].shiftId = sh
               THEN /\ Len(new) = Len(old)
                    /\ \A j \in 1..Len(old) :
                         IF old[j].shiftId = sh
                         THEN /\ new[j].shiftId = sh
                              /\ new[j].hours = calls[w].args.minutes
                              /\ new[j].km = calls[w].args.km
                         ELSE new[j] = old[j]
               ELSE /\ Len(new) = Len(old) + 1
                    /\ SubSeq(new, 1, Len(old)) = old
                    /\ new[Len(new)].shiftId = sh
    ]_vars

\* An upsert has returned after replacing the first of two items by a
\* 31-minute item without km; the second item is a 61-minute one.
C9_Witness ==
  /\ Returned(1, "upsertTimesheetForShift", 200)
  /\ LET t == timesheets[calls[1].tsId] IN
     /\ Len(t.items) = 2
     /\ t.items[1].shiftId = calls[1].args.shiftId
     /\ t.items[1].shiftId # t.items[2].shiftId
     /\ t.items[1].hours = 31 /\ t.items[1].km = 0
     /\ t.items[2].hours = 61

\* No two Timesheets of tss share (trainerId, weekStart).
UniqueTrainerWeek(tss) ==
  \A i, j \in 1..Len(tss) :
    i # j => ~(tss[i].trainerId = tss[j].trainerId /\ tss[i].weekStart = tss[j].weekStart)

\* C10: at most one Timesheet exists per (trainerId, weekStart) in every
\* reachable state, also when two clock-outs of one trainer in one week run
\* concurrently and no Timesheet exists yet; the upsert that creates the
\* Timesheet creates it DRAFT, with no items and zero totals.
C10_OneTimesheetPerWeek ==
  [][/\ UniqueTrainerWeek(timesheets')
     /\ Len(timesheets') > Len(timesheets) =>
          /\ SubSeq(timesheets', 1, Len(timesheets)) = timesheets
          /\ Len(timesheets') = Len(timesheets) + 1
          /\ LET t == timesheets'[Len(timesheets')] IN
             /\ t.status = "DRAFT"
             /\ t.items = <<>>
             /\ t.totals = [hours |-> 0, km |-> 0, amountCents |-> 0,
                            mileageCents |-> 0, totalCents |-> 0]
    ]_vars

\* Two clock-outs are both past their upsert and before their save, on the one
\* Timesheet of the week, still empty.
C10_Witness ==
  /\ calls[1].op = "clockOut" /\ calls[1].pc = "ts_save"
  /\ calls[2].op = "clockOut" /\ calls[2].pc = "ts_save"
  /\ calls[1].tsId = calls[2].tsId
  /\ Len(timesheets) = 1
  /\ timesheets[1].items = <<>>

\* C11: for a participant id that resolves to a user and a requester allowed
\* to act for it, createShiftRequest succeeds exactly when start < end,
\* end >= now and end - start >= 30 minutes; on success the stored request is
\* PENDING_ADMIN with no assigned trainer and no linked Shift, on failure the
\* status is 400 and no ShiftRequest is stored.
C11_CreateContract ==
  [][\A p \in ParticipantInputs, u \in RequesterInputs, win \in DayWindows :
       (/\ createShiftRequest(1, p, u, win)
        /\ p \in Users
        /\ (UserRole(u) = "ADMIN" \/ p = u)) =>
         LET ok == /\ win[1] < win[2]
                   /\ win[2] >= now
                   /\ win[2] - win[1] >= 30 * 60 * 1000
         IN IF ok
            THEN /\ calls'[1].res = 200
                 /\ requests' = Append(requests,
                      [participantId |-> p, start |-> win[1], end |-> win[2],
                       status |-> "PENDING_ADMIN", assignedTrainerId |-> Null,
                       linkedShiftId |-> NoId])
            ELSE /\ calls'[1].res = 400
                 /\ requests' = requests
    ]_vars

\* A request of exactly 30 minutes that ends at this instant has been created.
C11_Witness ==
  /\ Returned(1, "createShiftRequest", 200)
  /\ LET r == requests[calls[1].reqId] IN
     /\ r.end = now
     /\ r.end - r.start = 30 * 60 * 1000
     /\ r.status = "PENDING_ADMIN"
     /\ r.assignedTrainerId = Null
     /\ r.linkedShiftId = NoId

\* C12: whenever a clock-out has returned successfully, the Shift it clocked
\* out is COMPLETED, the ShiftRequest is COMPLETED, and exactly one Timesheet
\* of (shift.trainerId, week of the request's scheduled end) exists and holds
\* exactly one item of that Shift.
C12_ClockOutCompletes ==
  \A w \in Workers :
    Returned(w, "clockOut", 200) =>
      LET sh == shifts[calls[w].shiftId]
          r == requests[calls[w].reqId]
          week == r.end - (r.end % WeekMs)
          sheets == {i \in 1..Len(timesheets) :
                       /\ timesheets[i].trainerId = sh.trainerId
                       /\ timesheets[i].weekStart = week}
      IN /\ sh.status = "COMPLETED"
         /\ r.status = "COMPLETED"
         /\ r.linkedShiftId = calls[w].shiftId
         /\ Cardinality(sheets) = 1
         /\ \A i \in sheets :
              Cardinality({k \in 1..Len(timesheets[i].items) :
                             timesheets[i].items[k].shiftId = calls[w].shiftId}) = 1

\* A clock-out of a shift scheduled to end on Monday 00:00 has returned: its
\* item is on the Timesheet of the week that starts then.
C12_Witness ==
  /\ Returned(1, "clockOut", 200)
  /\ requests[calls[1].reqId].end = WeekMs
  /\ timesheets[calls[1].tsId].weekStart = WeekMs
  /\ timesheets[calls[1].tsId].items[1].shiftId = calls[1].shiftId

\* C13: each successful reopenTimesheet appends exactly one entry {by, at,
\* reason} to the stored Timesheet's audit log, and no step of any operation
\* changes or removes an entry the stored log holds.
C13_AuditAppendOnly ==
  [][\A w \in Workers :
       /\ Leaves(w, "ro_save") =>
            /\ calls'[w].res = 200
            /\ Len(auditOf(timesheets'[calls[w].tsId]))
                 = Len(auditOf(timesheets[calls[w].tsId])) + 1
            /\ auditOf(timesheets'[calls[w].tsId])[Len(auditOf(timesheets'[calls[w].tsId]))].by
                 \in AdminInputs
       /\ \A i \in 1..Len(timesheets) :
            /\ Len(auditOf(timesheets'[i])) >= Len(auditOf(timesheets[i]))
            /\ SubSeq(auditOf(timesheets'[i]), 1, Len(auditOf(timesheets[i])))
                 = auditOf(timesheets[i])
    ]_vars

\* The one request of the day is for 09:00-11:00, its trainer t1 clocked in at
\* 09:15, and t1's clock-out at 11:20 with km = 12 has returned.
DayScenario ==
  /\ Returned(1, "clockOut", 200)
  /\ Len(requests) = 1
  /\ calls[1].reqId = 1
  /\ requests[1].start = DayMs + 9 * 60 * 60000
  /\ requests[1].end = DayMs + 11 * 60 * 60000
  /\ requests[1].assignedTrainerId = "t1"
  /\ shifts[calls[1].shiftId].actualClockIn = DayMs + (9 * 60 + 15) * 60000
  /\ calls[1].at = DayMs + (11 * 60 + 20) * 60000
  /\ calls[1].km = 12

C15_IneligibleTrainerRejected ==
  [][\A w \in Workers, r \in 1..Len(requests), t \in Trainers :
       (/\ Starts(w, "approveAndAssign")
        /\ calls'[w].reqId = r
        /\ calls'[w].trainerId = t
        /\ requests[r].status = "PENDING_ADMIN"
        /\ \/ UserRole(TrainerUserId(t)) # "TRAINER"
           \/ UserStatus(TrainerUserId(t)) = "BLOCKED"
           \/ TrainerStatus(t) = "pending") =>
         /\ calls'[w].pc = "done"
         /\ calls'[w].res = 400
         /\ requests' = requests
    ]_vars

\* C16: once approveAndAssign has saved, the request is APPROVED with the
\* trainer assigned while the emails are attempted and after the call has
\* returned, and the call returns success also when sending an email failed:
\* a notification failure neither reverts nor prevents the approval.
C16_MailFailureKeepsApproval ==
  \A w \in Workers :
    /\ (calls[w].op = "approveAndAssign" /\ calls[w].pc = "done"
        /\ calls[w].mail = "failed") => calls[w].res = 200
    /\ (/\ calls[w].op = "approveAndAssign"
        /\ calls[w].pc = "aa_notify" \/ Returned(w, "approveAndAssign", 200)) =>
         /\ requests[calls[w].reqId].status = "APPROVED"
         /\ requests[calls[w].reqId].assignedTrainerId = calls[w].trainerId

\* approveAndAssign has returned success after an email failed.
C16_Witness ==
  /\ Returned(1, "approveAndAssign", 200)
  /\ calls[1].mail = "failed"
  /\ requests[calls[1].reqId].status = "APPROVED"

\* C17: decline gets to its save only on a PENDING_ADMIN request, and the
\* save makes the request DECLINED and nothing else; on a request of any other
\* status (APPROVED, DECLINED, COMPLETED) it fails with 409 and leaves the
\* request as it is.
C17_DeclineOnlyPending ==
  [][\A w \in Workers :
       /\ (Starts(w, "decline") /\ calls'[w].reqId # NoId) =>
            /\ requests' = requests
            /\ IF requests[calls'[w].reqId].status = "PENDING_ADMIN"
               THEN calls'[w].pc = "d_save"
               ELSE calls'[w].pc = "done" /\ calls'[w].res = 409
       /\ Leaves(w, "d_save") =>
            /\ calls'[w].pc = "done" /\ calls'[w].res = 200
            /\ requests[calls[w].reqId].status = "PENDING_ADMIN"
            /\ requests' = [requests EXCEPT ![calls[w].reqId].status = "DECLINED"]
    ]_vars

\* decline on a COMPLETED request has returned 409.
C17_Witness ==
  /\ Returned(1, "decline", 409)
  /\ requests[calls[1].reqId].status = "COMPLETED"
  /\ requests[calls[1].reqId].assignedTrainerId # Null

\* C18: clock-in and clock-out by a trainer the request is not assigned to,
\* a request with no assigned trainer included, fail with 403; clock-in by the
\* assigned trainer on a request that is not APPROVED fails with 409; clock-out
\* by the assigned trainer on a request with no linked Shift fails with 404;
\* none of them creates or changes a request, a Shift or a Timesheet.
C18_ClockGuards ==
  [][\A w \in Workers :
       /\ (/\ Starts(w, "clockIn") \/ Starts(w, "clockOut")
           /\ calls'[w].reqId # NoId
           /\ requests[calls'[w].reqId].assignedTrainerId # calls'[w].trainerId) =>
            /\ calls'[w].pc = "done" /\ calls'[w].res = 403
            /\ UNCHANGED <<requests, shifts, timesheets>>
       /\ (/\ Starts(w, "clockIn")
           /\ calls'[w].reqId # NoId
           /\ requests[calls'[w].reqId].assignedTrainerId = calls'[w].trainerId
           /\ requests[calls'[w].reqId].status # "APPROVED") =>
            /\ calls'[w].pc = "done" /\ calls'[w].res = 409
            /\ UNCHANGED <<requests, shifts, timesheets>>
       /\ (/\ calls[w].op = "clockOut"
           /\ Leaves(w, "co_find")
           /\ requests[calls[w].reqId].linkedShiftId = NoId) =>
            /\ calls'[w].pc = "done" /\ calls'[w].res = 404
            /\ UNCHANGED <<requests, shifts, timesheets>>
    ]_vars

\* A clock-in on a request that has no assigned trainer has returned 403 and
\* there is no Shift.
C18_Witness ==
  /\ Returned(1, "clockIn", 403)
  /\ requests[calls[1].reqId].assignedTrainerId = Null
  /\ shifts = <<>>

C20_ItemAmounts ==
  [][/\ \A amount \in ItemAmounts :
          upsertTimesheetForShift_call(1, "t1", 1, StartNow, amount) =>
            LET item == calls'[1].ts.items[1]
                km == IF amount[2] = NoNum THEN 0 ELSE amount[2]
                kmRateCents == IF amount[3] = NoNum THEN 0 ELSE amount[3]
            IN
            /\ Len(calls'[1].ts.items) = 1
            /\ item.amountCents = (2 * amount[1] * amount[4] + 60) \div 120
            /\ item.mileageCents = km * kmRateCents
            /\ item.totalCents = item.amountCents + item.mileageCents
     /\ (calls[1].op = "upsertTimesheetForShift" /\ Leaves(1, "ts_save")) =>
          timesheets'[calls[1].tsId].items = calls[1].ts.items
    ]_vars

\* C21: when a clock-out has returned successfully, the Timesheet holding the
\* shift's item is the one of the week that contains the request's scheduled
\* end: its weekStart is a Monday 00:00:00.000 UTC at or before the end and
\* less than 7 days before it, and its weekEnd is weekStart + 7 days - 1 ms.
\* A shift that starts on Sunday and ends on Monday is in the later week.
C21_WeekOfScheduledEnd ==
  \A w \in Workers :
    Returned(w, "clockOut", 200) =>
      LET end == requests[calls[w].reqId].end
          holders == {i \in 1..Len(timesheets) :
                        \E k \in 1..Len(timesheets[i].items) :
                          timesheets[i].items[k].shiftId = calls[w].shiftId}
      IN /\ holders # {}
         /\ \A i \in holders :
              /\ timesheets[i].weekStart % WeekMs = 0
              /\ timesheets[i].weekStart <= end
              /\ end - timesheets[i].weekStart < WeekMs
              /\ timesheets[i].weekEnd = timesheets[i].weekStart + WeekMs - 1

\* A shift scheduled from Sunday evening to Monday 00:00, clocked in and out
\* on the Sunday, has its item on the Timesheet of the week starting that
\* Monday.
C21_Witness ==
  /\ Returned(1, "clockOut", 200)
  /\ requests[calls[1].reqId].start < WeekMs
  /\ requests[calls[1].reqId].end = WeekMs
  /\ now < WeekMs
  /\ shifts[calls[1].shiftId].actualClockOut < WeekMs
  /\ \E i \in 1..Len(timesheets) :
       /\ timesheets[i].weekStart = WeekMs
       /\ timesheets[i].weekEnd = 2 * WeekMs - 1
       /\ timesheets[i].items # <<>>

C23_InvalidWindowUnreachable ==
  /\ \A r \in 1..Len(requests) :
       /\ requests[r].start < requests[r].end
       /\ RoundDiv(requests[r].end - requests[r].start, MsPerMinute) >= 30
  /\ \A w \in Workers : ~Returned(w, "clockIn", 500)

\* C24: once a Shift is COMPLETED, the amounts of its timesheet item
\* (hours, km, amountCents, mileageCents, totalCents), which are its billable
\* minutes priced at its rates, are changed by no later step, a later
\* clock-out of the same request included.
C24_BillingFrozen ==
  [][\A i \in 1..Len(timesheets) :
       \A k \in 1..Len(timesheets[i].items) :
         LET item == timesheets[i].items[k] IN
         (/\ item.shiftId \in 1..Len(shifts)
          /\ shifts[item.shiftId].status = "COMPLETED") =>
           /\ k <= Len(timesheets'[i].items)
           /\ timesheets'[i].items[k].shiftId = item.shiftId
           /\ timesheets'[i].items[k].hours = item.hours
           /\ timesheets'[i].items[k].km = item.km
           /\ timesheets'[i].items[k].amountCents = item.amountCents
           /\ timesheets'[i].items[k].mileageCents = item.mileageCents
           /\ timesheets'[i].items[k].totalCents = item.totalCents
    ]_vars

\* C25: when clock-outs of one trainer for different shifts of one week
\* overlap, a clock-out that returns successfully leaves on the Timesheet an
\* item of its own shift and every item that was there, with totals that are
\* the sums over the items: after both have returned successfully the
\* Timesheet holds both items and no item was lost to an overwrite.
C25_NoItemLost ==
  [][\A w \in Workers :
       (/\ calls[w].op = "clockOut"
        /\ Leaves(w, "ts_save")
        /\ calls'[w].res = 200) =>
         LET old == timesheets[calls[w].tsId].items
             new == timesheets'[calls[w].tsId]
             has(sh) == \E k \in 1..Len(new.items) : new.items[k].shiftId = sh
         IN /\ has(calls[w].shiftId)
            /\ \A j \in 1..Len(old) : has(old[j].shiftId)
            /\ new.totals.totalCents = SumField(new.items, "totalCents")
            /\ new.totals.hours = SumField(new.items, "hours")
            /\ new.totals.km = SumField(new.items, "km")
    ]_vars

\* Two clock-outs for different shifts have both loaded an empty Timesheet;
\* the second to start has saved its item and returned successfully while the
\* save of the first is still to come.
C25_Witness ==
  /\ Returned(2, "clockOut", 200)
  /\ calls[1].op = "clockOut" /\ calls[1].pc = "ts_save"
  /\ calls[1].tsId = calls[2].tsId
  /\ calls[1].shiftId # calls[2].shiftId
  /\ Len(calls[1].ts.items) = 1
  /\ Len(timesheets[calls[2].tsId].items) = 1
  /\ timesheets[calls[2].tsId].items[1].shiftId = calls[2].shiftId

C27_TrainerIffApproved ==
  [][/\ \A r \in 1..Len(requests') :
          (requests'[r].assignedTrainerId # Null)
            <=> (requests'[r].status \in {"APPROVED", "COMPLETED"})
     /\ \A r \in 1..Len(requests) :
          requests[r].assignedTrainerId # Null =>
            requests'[r].assignedTrainerId = requests[r].assignedTrainerId
     /\ \A w \in Workers :
          (Leaves(w, "aa_save") \/ Leaves(w, "d_save")) =>
            requests[calls[w].reqId].status = "PENDING_ADMIN"
    ]_vars


\* C28: whenever a ShiftRequest is COMPLETED, no Shift that references it is
\* IN_PROGRESS and its linkedShiftId names a COMPLETED Shift, in every
\* reachable state of interleaved clock-ins and clock-outs on the request.
C28_CompletedHasNoOpenShift ==
  \A r \in 1..Len(requests) :
    requests[r].status = "COMPLETED" =>
      /\ \A i \in 1..Len(shifts) :
           shifts[i].shiftRequestId = r => shifts[i].status # "IN_PROGRESS"
      /\ requests[r].linkedShiftId # NoId
      /\ shifts[requests[r].linkedShiftId].status = "COMPLETED"

\* C29: every COMPLETED Shift has actualClockIn <= actualClockOut, whatever
\* the time at which the clock-in was accepted.
C29_ClockInBeforeClockOut ==
  \A i \in 1..Len(shifts) :
    shifts[i].status = "COMPLETED" =>
      shifts[i].actualClockIn <= shifts[i].actualClockOut

\* C30: a step of upsertTimesheetForShift (called on its own or by a
\* clock-out) leaves status, trainerId and weekStart of every stored
\* Timesheet as they were, whatever the status; it changes at most the
\* Timesheet of (trainerId, week of date), and there only items, totals and
\* weekEnd; a Timesheet it creates is that week's, in DRAFT.
C30_UpsertTouchesOneTimesheet ==
  [][\A w \in Workers :
       (Leaves(w, "ts_save") \/ (calls[w].pc # "ts_save" /\ calls'[w].pc = "ts_save")) =>
         LET a == calls'[w].args
             id == calls'[w].tsId
             n == Len(timesheets)
         IN
         /\ Len(timesheets') \in {n, n + 1}
         /\ id \in 1..Len(timesheets')
         /\ timesheets'[id].trainerId = a.trainerId
         /\ timesheets'[id].weekStart = startOfWeekUTC(a.date)
         /\ \A i \in 1..n :
              /\ timesheets'[i].status = timesheets[i].status
              /\ timesheets'[i].trainerId = timesheets[i].trainerId
              /\ timesheets'[i].weekStart = timesheets[i].weekStart
              /\ i # id => timesheets'[i] = timesheets[i]
         /\ Len(timesheets') = n + 1 =>
              /\ id = n + 1
              /\ timesheets'[id].status = "DRAFT"
    ]_vars

\* An upsert has returned after writing a second item to a Timesheet that is
\* no longer in DRAFT, while the other week's Timesheet is stored too.
C30_Witness ==
  \E w \in Workers :
    /\ Returned(w, "upsertTimesheetForShift", 200)
    /\ Len(timesheets) = 2
    /\ timesheets[calls[w].tsId].status \in {"SUBMITTED", "APPROVED", "REOPENED"}
    /\ Len(timesheets[calls[w].tsId].items) = 2
====
